---- MODULE Spec2Model ----
(***************************************************************************)
(* Course Scheduler (src/src/App.js): the registration store held in the   *)
(* App component's state `data`, its persisted copy in localStorage, the   *)
(* status line `message`, and the view/session state of the UI.            *)
(*                                                                         *)
(* Spec   : the store operations called with any arguments.                *)
(* CatalogSpec, UserSpec : Spec without addUser, without updateCourse.      *)
(* UISpec : the store operations as the rendered buttons dispatch them.    *)
(* ConflictSpec : checkConflict applied to pairs of courses.               *)
(* TabSpec : two tabs of one browser, each with its own App state, over    *)
(*           the one localStorage item.                                    *)
(***************************************************************************)
EXTENDS Integers, Sequences, FiniteSets, TLC

VARIABLES data, message, storage, view, auth, selectedCourse, editing,
          lastWriter, background, tab, probe

vars == <<data, message, storage, view, auth, selectedCourse, editing,
          lastWriter, background, tab, probe>>
uivars == <<view, auth, selectedCourse, editing>>
offstage == <<background, tab, probe>>

(* lastWriter : the tab whose save effect ran last.                        *)
(* background : << >>, or the App state of the tab that is not focused.    *)
(* tab        : the focused tab; data and message are its App state.       *)
(* probe      : << >>, or the pair of courses checkConflict is applied to  *)
(*              and what it returned.                                      *)

(* Most registrations the store holds, over all students, in the model. *)
MaxRegs == 2

(***************************************************************************)
(* Values                                                                  *)
(***************************************************************************)
(* "HH:MM" is kept as the pair <<HH, MM>>. *)
Course(id, days, start, end, seats) ==
    [id |-> id, days |-> days, start |-> start, end |-> end, seats |-> seats]

User(username, password) == [username |-> username, password |-> password]

Student(username, password, registrations) ==
    [username |-> username, password |-> password, registrations |-> registrations]

defaultData ==
    [users |->
        [admins |-> << User("admin1", "admin1"), User("admin2", "admin2") >>,
         students |-> << Student("student1", "student1", << >>),
                        Student("student2", "student2", << >>) >>],
     courses |->
        << Course("CSE101", {"Mon", "Wed"}, <<9, 0>>, <<10, 30>>, 30),
           Course("MAT201", {"Tue", "Thu"}, <<11, 0>>, <<12, 30>>, 25) >>]

CourseIds == {"CSE101", "MAT201", "CSE102"}

(* What an admin types into the course form. *)
CourseInputs ==
    { Course("CSE101", {"Mon", "Wed"}, <<9, 0>>, <<10, 30>>, 1),
      Course("MAT201", {"Mon"}, <<10, 0>>, <<11, 0>>, 25),
      Course("CSE102", {"Mon"}, <<9, 30>>, <<10, 0>>, 1),
      Course("CSE102", {"Mon"}, <<9, 30>>, <<10, 0>>, 0),
      Course("CSE102", {}, <<9, 0>>, <<10, 0>>, 30),
      Course("CSE102", {"Mon"}, <<10, 0>>, <<9, 30>>, 1) }

(* What an admin types into the user form. *)
UserInputs == { User("admin1", "pw"), User("student1", "pw") }

(* The status line is kept as a sequence of strings: the text, then the    *)
(* names a "Demo accounts: " line lists.                                   *)
Msg(text) == << text >>

(***************************************************************************)
(* Persistence                                                             *)
(***************************************************************************)
(* JSON text is modelled by the values it lists, in the order it lists     *)
(* them: an array by a sequence, an object by the sequence of its member    *)
(* values in key order.  A days array is the weekdays of the course in      *)
(* week order.                                                              *)
Weekdays == << "Mon", "Tue", "Wed", "Thu", "Fri" >>

stringifyCourse(c) ==
    LET InDays(d) == d \in c.days
    IN  << c.id, SelectSeq(Weekdays, InDays), c.start, c.end, c.seats >>

parseCourse(j) ==
    Course(j[1], { j[2][i] : i \in DOMAIN j[2] }, j[3], j[4], j[5])

stringifyUser(u) == << u.username, u.password >>

parseUser(j) == User(j[1], j[2])

stringifyStudent(u) == << u.username, u.password, u.registrations >>

parseStudent(j) == Student(j[1], j[2], j[3])

JSONstringify(d) ==
    << << [i \in DOMAIN d.users.admins |-> stringifyUser(d.users.admins[i])],
          [i \in DOMAIN d.users.students |-> stringifyStudent(d.users.students[i])] >>,
       [i \in DOMAIN d.courses |-> stringifyCourse(d.courses[i])] >>

JSONparse(j) ==
    [users |->
        [admins |-> [i \in DOMAIN j[1][1] |-> parseUser(j[1][1][i])],
         students |-> [i \in DOMAIN j[1][2] |-> parseStudent(j[1][2][i])]],
     courses |-> [i \in DOMAIN j[2] |-> parseCourse(j[2][i])]]

(* localStorage holds << >> for no item and << text >> for the item. *)
saveToStorage(d) == << JSONstringify(d) >>

loadFromStorage(raw) == IF raw = << >> THEN defaultData ELSE JSONparse(raw[1])

(***************************************************************************)
(* Time utilities and conflict checker                                     *)
(***************************************************************************)
Max(a, b) == IF a > b THEN a ELSE b
Min(a, b) == IF a < b THEN a ELSE b

timeToMinutes(t) == t[1] * 60 + t[2]

(* timesOverlap that asks whether the second interval starts inside the first *)
timesOverlap_StartInside(aStart, aEnd, bStart, bEnd) ==
    aStart <= bStart /\ bStart < aEnd

(* timesOverlap over closed intervals *)
timesOverlap_Closed(aStart, aEnd, bStart, bEnd) ==
    Max(aStart, bStart) <= Min(aEnd, bEnd)

timesOverlap(aStart, aEnd, bStart, bEnd) == Max(aStart, bStart) < Min(aEnd, bEnd)

(* checkConflict that does not look at the days *)
checkConflict_AnyDay(courseA, courseB) ==
    timesOverlap(timeToMinutes(courseA.start), timeToMinutes(courseA.end),
                 timeToMinutes(courseB.start), timeToMinutes(courseB.end))

(* checkConflict that never reports a course against itself *)
checkConflict_SkipSelf(courseA, courseB) ==
    /\ courseA.id # courseB.id
    /\ \E d \in courseA.days : d \in courseB.days
    /\ timesOverlap(timeToMinutes(courseA.start), timeToMinutes(courseA.end),
                    timeToMinutes(courseB.start), timeToMinutes(courseB.end))

checkConflict(courseA, courseB) ==
    LET daysIntersection == \E d \in courseA.days : d \in courseB.days
    IN  IF ~daysIntersection
        THEN FALSE
        ELSE timesOverlap(timeToMinutes(courseA.start), timeToMinutes(courseA.end),
                          timeToMinutes(courseB.start), timeToMinutes(courseB.end))

(***************************************************************************)
(* Helpers over the store                                                  *)
(***************************************************************************)
includes(list, x) == \E i \in DOMAIN list : list[i] = x

hasCourse(d, id) == \E i \in DOMAIN d.courses : d.courses[i].id = id

(* courses.find: the first course with the id. *)
findCourse(d, id) ==
    d.courses[CHOOSE i \in DOMAIN d.courses :
                /\ d.courses[i].id = id
                /\ \A j \in 1..(i - 1) : d.courses[j].id # id]

hasStudent(d, username) ==
    \E i \in DOMAIN d.users.students : d.users.students[i].username = username

findStudent(d, username) ==
    d.users.students[CHOOSE i \in DOMAIN d.users.students :
                /\ d.users.students[i].username = username
                /\ \A j \in 1..(i - 1) : d.users.students[j].username # username]

hasAdmin(d, username) ==
    \E i \in DOMAIN d.users.admins : d.users.admins[i].username = username

registrationsCount(d, courseId) ==
    Cardinality({ i \in DOMAIN d.users.students :
                    includes(d.users.students[i].registrations, courseId) })

RECURSIVE sumRegistrations(_, _)
sumRegistrations(students, n) ==
    IF n = 0 THEN 0
    ELSE Len(students[n].registrations) + sumRegistrations(students, n - 1)

totalRegistrations(d) == sumRegistrations(d.users.students, Len(d.users.students))

(* course.seats || 9999 *)
UnlimitedSeats == 9999
seatLimit(course) == IF course.seats = 0 THEN UnlimitedSeats ELSE course.seats

(* regCourses.every in place of regCourses.some *)
conflict_Every(d, studentRegs, course) ==
    \A i \in DOMAIN d.courses :
        includes(studentRegs, d.courses[i].id) => checkConflict(d.courses[i], course)

(* regCourses.some((rc) => checkConflict(rc, course)) *)
conflict(d, studentRegs, course) ==
    \E i \in DOMAIN d.courses :
        /\ includes(studentRegs, d.courses[i].id)
        /\ checkConflict(d.courses[i], course)

(***************************************************************************)
(* State updates: setData re-renders and the save effect persists the new  *)
(* store; an action that only calls setMessage leaves both as they were.   *)
(***************************************************************************)
(* setData without the save effect *)
setData_NoSave(newData) ==
    /\ data' = newData
    /\ storage' = storage
    /\ lastWriter' = tab

setData(newData) ==
    /\ data' = newData
    /\ storage' = saveToStorage(newData)
    /\ lastWriter' = tab

setMessage(m) == message' = m

onlyMessage(m) ==
    /\ setMessage(m)
    /\ UNCHANGED <<data, storage, lastWriter>>

(***************************************************************************)
(* Store operations                                                        *)
(***************************************************************************)
(* addCourse without the duplicate-id check *)
addCourse_NoCheck(course) ==
    /\ setMessage(Msg("Course added"))
    /\ setData([data EXCEPT !.courses = Append(@, course)])

addCourse(course) ==
    IF hasCourse(data, course.id)
    THEN onlyMessage(Msg("Course with same ID already exists."))
    ELSE /\ setMessage(Msg("Course added"))
         /\ setData([data EXCEPT !.courses = Append(@, course)])

(* updateCourse that adds the course when no course has its id *)
updateCourse_Upsert(updated) ==
    LET newCourses == [i \in DOMAIN data.courses |->
                         IF data.courses[i].id = updated.id THEN updated
                         ELSE data.courses[i]]
    IN  /\ setMessage(Msg("Course updated"))
        /\ setData([data EXCEPT !.courses =
                IF hasCourse(data, updated.id) THEN newCourses
                ELSE Append(@, updated)])

updateCourse(updated) ==
    LET newCourses == [i \in DOMAIN data.courses |->
                         IF data.courses[i].id = updated.id THEN updated
                         ELSE data.courses[i]]
    IN  /\ setMessage(Msg("Course updated"))
        /\ setData([data EXCEPT !.courses = newCourses])

(* deleteCourse that removes the course and keeps the registrations *)
deleteCourse_NoCascade(id) ==
    LET OtherCourse(c) == c.id # id
    IN  /\ setMessage(Msg("Course deleted and registrations updated"))
        /\ setData([data EXCEPT !.courses = SelectSeq(@, OtherCourse)])

deleteCourse(id) ==
    LET NotId(r) == r # id
        OtherCourse(c) == c.id # id
        newStudents == [i \in DOMAIN data.users.students |->
                          [data.users.students[i] EXCEPT
                              !.registrations = SelectSeq(@, NotId)]]
        newCourses == SelectSeq(data.courses, OtherCourse)
    IN  /\ setMessage(Msg("Course deleted and registrations updated"))
        /\ setData([data EXCEPT !.courses = newCourses,
                                !.users.students = newStudents])

(* [courseId, ...(s.registrations || [])] *)
appendRegistration_Prepend(registrations, courseId) == << courseId >> \o registrations

(* [...(s.registrations || []), courseId] *)
appendRegistration(registrations, courseId) == Append(registrations, courseId)

registerCourse(studentUsername, courseId) ==
    IF ~hasCourse(data, courseId)
    THEN onlyMessage(Msg("Course not found"))
    ELSE
      LET course == findCourse(data, courseId)
          student == findStudent(data, studentUsername)
          newStudents == [i \in DOMAIN data.users.students |->
                            IF data.users.students[i].username = studentUsername
                            THEN [data.users.students[i] EXCEPT
                                    !.registrations = appendRegistration(@, courseId)]
                            ELSE data.users.students[i]]
      IN  IF registrationsCount(data, courseId) >= seatLimit(course)
          THEN onlyMessage(Msg("No seats available"))
          ELSE IF conflict(data, student.registrations, course)
          THEN onlyMessage(Msg("Cannot register due to a schedule conflict"))
          ELSE /\ setMessage(Msg("Registered successfully"))
               /\ setData([data EXCEPT !.users.students = newStudents])

(* unregisterCourse that filters every student's list *)
unregisterCourse_Everyone(studentUsername, courseId) ==
    LET NotId(r) == r # courseId
        newStudents == [i \in DOMAIN data.users.students |->
                          [data.users.students[i] EXCEPT
                              !.registrations = SelectSeq(@, NotId)]]
    IN  /\ setMessage(Msg("Unregistered"))
        /\ setData([data EXCEPT !.users.students = newStudents])

unregisterCourse(studentUsername, courseId) ==
    LET NotId(r) == r # courseId
        newStudents == [i \in DOMAIN data.users.students |->
                          IF data.users.students[i].username = studentUsername
                          THEN [data.users.students[i] EXCEPT
                                  !.registrations = SelectSeq(@, NotId)]
                          ELSE data.users.students[i]]
    IN  /\ setMessage(Msg("Unregistered"))
        /\ setData([data EXCEPT !.users.students = newStudents])

(* addUser whose duplicate checks set the message and fall through *)
addUser_NoReturn(type, user) ==
    IF type = "admin"
    THEN /\ setMessage(Msg("Admin added"))
         /\ setData([data EXCEPT !.users.admins = Append(@, user)])
    ELSE /\ setMessage(Msg("Student added"))
         /\ setData([data EXCEPT !.users.students =
                Append(@, Student(user.username, user.password, << >>))])

(* addUser that looks the username up in both collections *)
addUser_SharedNames(type, user) ==
    IF hasAdmin(data, user.username) \/ hasStudent(data, user.username)
    THEN onlyMessage(Msg(IF type = "admin" THEN "Admin username taken"
                         ELSE "Student username taken"))
    ELSE IF type = "admin"
    THEN /\ setMessage(Msg("Admin added"))
         /\ setData([data EXCEPT !.users.admins = Append(@, user)])
    ELSE /\ setMessage(Msg("Student added"))
         /\ setData([data EXCEPT !.users.students =
                Append(@, Student(user.username, user.password, << >>))])

addUser(type, user) ==
    IF type = "admin"
    THEN IF hasAdmin(data, user.username)
         THEN onlyMessage(Msg("Admin username taken"))
         ELSE /\ setMessage(Msg("Admin added"))
              /\ setData([data EXCEPT !.users.admins = Append(@, user)])
    ELSE IF hasStudent(data, user.username)
         THEN onlyMessage(Msg("Student username taken"))
         ELSE /\ setMessage(Msg("Student added"))
              /\ setData([data EXCEPT !.users.students =
                    Append(@, Student(user.username, user.password, << >>))])

(***************************************************************************)
(* Spec: the store operations, called with any arguments                   *)
(***************************************************************************)
StudentNames == { data.users.students[i].username : i \in DOMAIN data.users.students }

StoreAddCourse ==
    /\ \E course \in CourseInputs : addCourse(course)
    /\ UNCHANGED <<uivars, offstage>>

StoreUpdateCourse ==
    /\ \E updated \in CourseInputs : updateCourse(updated)
    /\ UNCHANGED <<uivars, offstage>>

StoreDeleteCourse ==
    /\ \E id \in CourseIds : deleteCourse(id)
    /\ UNCHANGED <<uivars, offstage>>

StoreRegisterCourse ==
    /\ \E s \in StudentNames, id \in CourseIds :
          /\ registerCourse(s, id)
          /\ totalRegistrations(data') <= MaxRegs
    /\ UNCHANGED <<uivars, offstage>>

StoreUnregisterCourse ==
    /\ \E s \in StudentNames, id \in CourseIds : unregisterCourse(s, id)
    /\ UNCHANGED <<uivars, offstage>>

StoreAddUser ==
    /\ \E type \in {"admin", "student"}, user \in UserInputs : addUser(type, user)
    /\ UNCHANGED <<uivars, offstage>>

AppInit ==
    /\ data = loadFromStorage(<< >>)
    /\ storage = saveToStorage(data)
    /\ message = Msg("")
    /\ view = "home"
    /\ auth = [type |-> "null", user |-> "null"]
    /\ selectedCourse = << >>
    /\ editing = FALSE
    /\ lastWriter = "first"
    /\ background = << >>
    /\ tab = "first"

Init ==
    /\ AppInit
    /\ probe = << >>

Next ==
    \/ StoreAddCourse
    \/ StoreUpdateCourse
    \/ StoreDeleteCourse
    \/ StoreRegisterCourse
    \/ StoreUnregisterCourse
    \/ StoreAddUser

Spec == Init /\ [][Next]_vars

(***************************************************************************)
(* UISpec: the handlers of the rendered buttons                            *)
(*                                                                         *)
(* selectedCourse holds the id of the course object a View button stored   *)
(* (<< >> for null): the handlers read no other field of it.  editing says *)
(* whether AdminDashboard's `editing` state is set; AdminDashboard is      *)
(* declared inside App, so every re-render of App mounts it afresh with    *)
(* editing = null.                                                         *)
(***************************************************************************)
(* What the course form holds when Save / Add course is clicked. *)
FormCourses ==
    { Course("CSE102", {}, <<9, 0>>, <<10, 0>>, 30),
      Course("MAT201", {"Mon"}, <<10, 0>>, <<11, 0>>, 25) }

(* What the login form holds when Login is clicked: <<username, password>>. *)
Credentials ==
    { <<"admin1", "admin1">>, <<"student1", "student1">>, <<"admin1", "pw">> }

noAuth == [type |-> "null", user |-> "null"]

usersOf(type) == IF type = "admin" THEN data.users.admins ELSE data.users.students

found(list, username, password) ==
    \E i \in DOMAIN list : list[i].username = username /\ list[i].password = password

(* login that accepts whatever was typed *)
login_NoCheck(type, username, password) ==
    /\ auth' = [type |-> type, user |-> username]
    /\ message' = Msg("")
    /\ view' = (IF type = "admin" THEN "admin-dashboard" ELSE "student-dashboard")

login(type, username, password) ==
    IF found(usersOf(type), username, password)
    THEN /\ auth' = [type |-> type, user |-> username]
         /\ message' = Msg("")
         /\ view' = (IF type = "admin" THEN "admin-dashboard" ELSE "student-dashboard")
    ELSE /\ message' = Msg("Invalid credentials")
         /\ UNCHANGED <<auth, view>>

logout ==
    /\ auth' = noAuth
    /\ view' = "home"

(* const c = selectedCourse || data.courses[0] || null, as its id *)
describedCourse ==
    IF selectedCourse # << >> THEN selectedCourse
    ELSE IF data.courses # << >> THEN << data.courses[1].id >>
    ELSE << >>

(* Top bar Home; Back on a login form; Home on the course description and  *)
(* on the "Not authorized" page.                                           *)
ClickHome ==
    /\ view' = "home"
    /\ editing' = FALSE
    /\ UNCHANGED <<data, storage, lastWriter, message, auth, selectedCourse, offstage>>

(* Top bar Catalog; Home's catalog button; Open catalog on a dashboard;    *)
(* Close on the course description.                                        *)
ClickCatalog ==
    /\ view' = "course-desc"
    /\ editing' = FALSE
    /\ UNCHANGED <<data, storage, lastWriter, message, auth, selectedCourse, offstage>>

(* Student Login / Admin Login: on Home, and in the top bar when logged out *)
ClickLoginView ==
    /\ view = "home" \/ auth.type = "null"
    /\ \E type \in {"admin", "student"} :
          view' = (IF type = "admin" THEN "login-admin" ELSE "login-student")
    /\ editing' = FALSE
    /\ UNCHANGED <<data, storage, lastWriter, message, auth, selectedCourse, offstage>>

ClickLogin ==
    /\ view \in {"login-admin", "login-student"}
    /\ \E cred \in Credentials :
          login(IF view = "login-admin" THEN "admin" ELSE "student", cred[1], cred[2])
    /\ UNCHANGED <<data, storage, lastWriter, selectedCourse, editing, offstage>>

ClickShowDemoAccounts ==
    /\ view \in {"login-admin", "login-student"}
    /\ LET usersList == usersOf(IF view = "login-admin" THEN "admin" ELSE "student")
       IN  message' = << "Demo accounts: " >>
                        \o [i \in DOMAIN usersList |-> usersList[i].username]
    /\ UNCHANGED <<data, storage, lastWriter, view, auth, selectedCourse, editing, offstage>>

(* Logout: in the top bar when logged in, and on both dashboards *)
ClickLogout ==
    /\ auth.type # "null"
    /\ logout
    /\ editing' = FALSE
    /\ UNCHANGED <<data, storage, lastWriter, message, selectedCourse, offstage>>

onAdminDashboard == view = "admin-dashboard" /\ auth.type = "admin"

onStudentDashboard == view = "student-dashboard" /\ auth.type = "student"

ClickEdit ==
    /\ onAdminDashboard
    /\ data.courses # << >>
    /\ editing' = TRUE
    /\ UNCHANGED <<data, storage, lastWriter, message, view, auth, selectedCourse, offstage>>

ClickDelete ==
    /\ onAdminDashboard
    /\ \E i \in DOMAIN data.courses : deleteCourse(data.courses[i].id)
    /\ editing' = FALSE
    /\ UNCHANGED <<view, auth, selectedCourse, offstage>>

(* View, on either dashboard *)
ClickView ==
    /\ onAdminDashboard \/ onStudentDashboard
    /\ \E i \in DOMAIN data.courses : selectedCourse' = << data.courses[i].id >>
    /\ view' = "course-desc"
    /\ editing' = FALSE
    /\ UNCHANGED <<data, storage, lastWriter, message, auth, offstage>>

(* Add course / Save *)
ClickSave ==
    /\ onAdminDashboard
    /\ \E newCourse \in FormCourses :
          IF ~editing THEN addCourse(newCourse) ELSE updateCourse(newCourse)
    /\ editing' = FALSE
    /\ UNCHANGED <<view, auth, selectedCourse, offstage>>

(* Add student; a refusal that repeats the message shown re-renders nothing *)
ClickAddStudent ==
    /\ onAdminDashboard
    /\ \E newUser \in UserInputs : addUser("student", newUser)
    /\ editing' = (editing /\ data' = data /\ message' = message)
    /\ UNCHANGED <<view, auth, selectedCourse, offstage>>

(* Register, shown on the dashboard for a course the student does not hold *)
ClickRegister ==
    /\ onStudentDashboard
    /\ LET me == findStudent(data, auth.user)
       IN  \E i \in DOMAIN data.courses :
              /\ ~includes(me.registrations, data.courses[i].id)
              /\ registerCourse(me.username, data.courses[i].id)
    /\ totalRegistrations(data') <= MaxRegs
    /\ UNCHANGED <<uivars, offstage>>

(* Unregister, shown on the dashboard for a course the student holds *)
ClickUnregister ==
    /\ onStudentDashboard
    /\ LET me == findStudent(data, auth.user)
       IN  \E i \in DOMAIN data.courses :
              /\ includes(me.registrations, data.courses[i].id)
              /\ unregisterCourse(me.username, data.courses[i].id)
    /\ UNCHANGED <<uivars, offstage>>

(* Register (as you), shown on the course description to a student *)
ClickRegisterAsYou ==
    /\ view = "course-desc"
    /\ describedCourse # << >>
    /\ auth.type = "student"
    /\ registerCourse(auth.user, describedCourse[1])
    /\ totalRegistrations(data') <= MaxRegs
    /\ UNCHANGED <<uivars, offstage>>

UINext ==
    \/ ClickHome
    \/ ClickCatalog
    \/ ClickLoginView
    \/ ClickLogin
    \/ ClickShowDemoAccounts
    \/ ClickLogout
    \/ ClickEdit
    \/ ClickDelete
    \/ ClickView
    \/ ClickSave
    \/ ClickAddStudent
    \/ ClickRegister
    \/ ClickUnregister
    \/ ClickRegisterAsYou

UISpec == Init /\ [][UINext]_vars

(***************************************************************************)
(* CatalogSpec: the course and registration operations over the default    *)
(* users.  UserSpec: addUser with the operations that fill and empty the   *)
(* catalog and the lists.  Both are Spec without some of its actions.      *)
(***************************************************************************)
CatalogNext ==
    \/ StoreAddCourse
    \/ StoreUpdateCourse
    \/ StoreDeleteCourse
    \/ StoreRegisterCourse
    \/ StoreUnregisterCourse

CatalogSpec == Init /\ [][CatalogNext]_vars

UserNext ==
    \/ StoreAddUser
    \/ StoreAddCourse
    \/ StoreDeleteCourse
    \/ StoreRegisterCourse
    \/ StoreUnregisterCourse

UserSpec == Init /\ [][UserNext]_vars

(***************************************************************************)
(* ConflictSpec: checkConflict(a, b) and checkConflict(b, a) for courses   *)
(* a, b over every day set and every start and end of ProbeTimes.          *)
(***************************************************************************)
ProbeDays == SUBSET {"Mon", "Tue"}

ProbeTimes == { <<9, 0>>, <<9, 59>>, <<10, 0>>, <<10, 1>>, <<11, 0>> }

ProbeCourses(id) ==
    { Course(id, days, start, end, 30) :
        days \in ProbeDays, start \in ProbeTimes, end \in ProbeTimes }

ConflictInit ==
    /\ AppInit
    /\ \E a \in ProbeCourses("CSE101"), b \in ProbeCourses("MAT201") :
          probe = << [a |-> a, b |-> b, checked |-> FALSE,
                      ab |-> FALSE, ba |-> FALSE] >>

ApplyCheckConflict ==
    /\ probe # << >>
    /\ ~probe[1].checked
    /\ probe' = << [probe[1] EXCEPT
                      !.checked = TRUE,
                      !.ab = checkConflict(probe[1].a, probe[1].b),
                      !.ba = checkConflict(probe[1].b, probe[1].a)] >>
    /\ UNCHANGED <<data, message, storage, uivars, lastWriter, background, tab>>

ConflictNext == ApplyCheckConflict

ConflictSpec == ConflictInit /\ [][ConflictNext]_vars

(***************************************************************************)
(* TabSpec: a second tab of the same origin.  A tab mounts App with        *)
(* useState(loadFromStorage), and its save effect runs after the mount and *)
(* after every setData.  The handlers of the focused tab run; the other    *)
(* tab's App state waits in background.  No handler listens to storage     *)
(* events.  Both tabs stay on the home view with nobody logged in, so the  *)
(* view and session variables stand for either tab.                        *)
(***************************************************************************)
otherTab(t) == IF t = "first" THEN "second" ELSE "first"

AppState(d, m) == [data |-> d, message |-> m]

mount ==
    /\ data' = loadFromStorage(storage)
    /\ message' = Msg("")
    /\ storage' = saveToStorage(data')
    /\ lastWriter' = tab'

OpenTab ==
    /\ background = << >>
    /\ background' = << AppState(data, message) >>
    /\ tab' = otherTab(tab)
    /\ mount
    /\ UNCHANGED <<uivars, probe>>

(* focusing the other tab, which reads localStorage anew *)
SwitchTab_Reload ==
    /\ background # << >>
    /\ background' = << AppState(data, message) >>
    /\ tab' = otherTab(tab)
    /\ data' = loadFromStorage(storage)
    /\ message' = background[1].message
    /\ UNCHANGED <<storage, lastWriter, uivars, probe>>

SwitchTab ==
    /\ background # << >>
    /\ background' = << AppState(data, message) >>
    /\ tab' = otherTab(tab)
    /\ data' = background[1].data
    /\ message' = background[1].message
    /\ UNCHANGED <<storage, lastWriter, uivars, probe>>

ReloadTab ==
    /\ tab' = tab
    /\ mount
    /\ UNCHANGED <<background, uivars, probe>>

TabNext ==
    \/ OpenTab
    \/ SwitchTab
    \/ ReloadTab
    \/ StoreRegisterCourse
    \/ StoreUnregisterCourse
    \/ StoreDeleteCourse

TabSpec == Init /\ [][TabNext]_vars

(***************************************************************************)
(* Properties of the store operations                                      *)
(***************************************************************************)
students == data.users.students
admins == data.users.admins
courses == data.courses

seatsTaken(id) ==
    Cardinality({ i \in DOMAIN students : includes(students[i].registrations, id) })

(* C1 (as claimed): for every course in the catalog, the number of students *)
(* whose registration list contains its id is at most its seats.            *)
C1_SeatCap ==
    \A i \in DOMAIN courses : seatsTaken(courses[i].id) <= courses[i].seats

(* C2 (as claimed): no student's registration list contains two distinct    *)
(* courses that conflict.                                                   *)
C2_NoDoubleBooking ==
    \A k \in DOMAIN students : \A i, j \in DOMAIN courses :
        ( /\ i # j
          /\ includes(students[k].registrations, courses[i].id)
          /\ includes(students[k].registrations, courses[j].id) )
        => ~checkConflict(courses[i], courses[j])

(* C3 (as claimed): when the students holding an existing course are at     *)
(* least its seats, registerCourse is rejected with the seats-full message  *)
(* and the store is unchanged.                                              *)
C3_SeatRejection ==
    [][\A s \in StudentNames, id \in CourseIds :
        ( /\ registerCourse(s, id)
          /\ hasCourse(data, id)
          /\ seatsTaken(id) >= findCourse(data, id).seats )
        => ( /\ message' = Msg("No seats available")
             /\ data' = data )]_vars

(* Some course the student's list names conflicts with the target. *)
heldConflict(s, target) ==
    \E k \in DOMAIN findStudent(data, s).registrations :
        LET rid == findStudent(data, s).registrations[k]
        IN  /\ hasCourse(data, rid)
            /\ checkConflict(findCourse(data, rid), target)

(* C4: in every reachable state, for a target course that exists and has a  *)
(* free seat, registerCourse is rejected with the schedule-conflict message *)
(* and leaves the store unchanged if and only if a course in the student's  *)
(* list conflicts with the target.                                          *)
C4_ConflictRejection ==
    \A s \in StudentNames, id \in CourseIds :
        ( /\ hasCourse(data, id)
          /\ seatsTaken(id) < findCourse(data, id).seats )
        => ( ENABLED ( /\ registerCourse(s, id)
                       /\ message' = Msg("Cannot register due to a schedule conflict")
                       /\ data' = data )
             <=> heldConflict(s, findCourse(data, id)) )

(* A student who holds CSE101 was refused CSE102 (Mon 09:30-10:00) for the  *)
(* conflict, CSE102 having a free seat.                                     *)
C4_Witness ==
    /\ message = Msg("Cannot register due to a schedule conflict")
    /\ hasCourse(data, "CSE102")
    /\ seatsTaken("CSE102") < findCourse(data, "CSE102").seats
    /\ \E k \in DOMAIN students :
          /\ students[k].registrations = << "CSE101" >>
          /\ checkConflict(findCourse(data, "CSE101"), findCourse(data, "CSE102"))

RECURSIVE removeAll(_, _)
removeAll(list, id) ==
    IF list = << >> THEN << >>
    ELSE IF Head(list) = id THEN removeAll(Tail(list), id)
    ELSE << Head(list) >> \o removeAll(Tail(list), id)

(* C5: from every reachable state, deleteCourse(id) leads to a state where  *)
(* no course of the catalog has the id, no registration list contains it,   *)
(* and every list keeps its other entries in their order.                   *)
C5_CascadeDelete ==
    \A id \in CourseIds :
        ENABLED ( /\ deleteCourse(id)
                  /\ ~hasCourse(data', id)
                  /\ DOMAIN data'.users.students = DOMAIN students
                  /\ \A k \in DOMAIN students :
                       /\ ~includes(data'.users.students[k].registrations, id)
                       /\ data'.users.students[k].registrations
                            = removeAll(students[k].registrations, id) )

(* A student holds CSE101 and then MAT201, and deleteCourse("CSE101")      *)
(* leaves that student with MAT201 alone.                                   *)
C5_Witness ==
    \E k \in DOMAIN students :
        /\ students[k].registrations = << "CSE101", "MAT201" >>
        /\ ENABLED ( /\ deleteCourse("CSE101")
                     /\ data'.users.students[k].registrations = << "MAT201" >>
                     /\ ~hasCourse(data', "CSE101") )

(* C6 (as claimed): no student's registration list contains the same       *)
(* course id more than once, whatever the buttons of the UI dispatched.     *)
C6_NoDuplicateRegistrations ==
    \A k \in DOMAIN students :
        \A i, j \in DOMAIN students[k].registrations :
            students[k].registrations[i] = students[k].registrations[j] => i = j

(* C7: from every reachable state, when the course exists, has a free seat  *)
(* and conflicts with nothing the student holds, registerCourse appends the *)
(* id at the end of that student's list and changes nothing else in the     *)
(* store.                                                                   *)
C7_SuccessfulRegistration ==
    \A s \in StudentNames, id \in CourseIds :
        ( /\ hasCourse(data, id)
          /\ seatsTaken(id) < findCourse(data, id).seats
          /\ ~heldConflict(s, findCourse(data, id)) )
        => ENABLED ( /\ registerCourse(s, id)
                     /\ message' = Msg("Registered successfully")
                     /\ data'.courses = courses
                     /\ data'.users.admins = admins
                     /\ DOMAIN data'.users.students = DOMAIN students
                     /\ \A k \in DOMAIN students :
                          data'.users.students[k] =
                            IF students[k].username = s
                            THEN [students[k] EXCEPT !.registrations = Append(@, id)]
                            ELSE students[k] )

(* A student holds CSE101 and then MAT201, which share no weekday. *)
C7_Witness ==
    /\ message = Msg("Registered successfully")
    /\ hasCourse(data, "CSE101") /\ hasCourse(data, "MAT201")
    /\ findCourse(data, "CSE101").days \cap findCourse(data, "MAT201").days = {}
    /\ \E k \in DOMAIN students : students[k].registrations = << "CSE101", "MAT201" >>

storeKept == data' = data /\ storage' = storage

(* C8: from every reachable state, a rejected addCourse (duplicate id),     *)
(* addUser (duplicate username in the role) or registerCourse (course not   *)
(* found, seats full, conflict) leaves the store and the persisted blob as  *)
(* they were; only the status message is set.                               *)
C8_RejectedChangesNothing ==
    /\ \A course \in CourseInputs :
          hasCourse(data, course.id)
          => ENABLED ( /\ addCourse(course)
                       /\ message' = Msg("Course with same ID already exists.")
                       /\ storeKept )
    /\ \A user \in UserInputs :
          /\ hasAdmin(data, user.username)
             => ENABLED ( /\ addUser("admin", user)
                          /\ message' = Msg("Admin username taken")
                          /\ storeKept )
          /\ hasStudent(data, user.username)
             => ENABLED ( /\ addUser("student", user)
                          /\ message' = Msg("Student username taken")
                          /\ storeKept )
    /\ \A s \in StudentNames, id \in CourseIds :
          /\ ~hasCourse(data, id)
             => ENABLED ( /\ registerCourse(s, id)
                          /\ message' = Msg("Course not found")
                          /\ storeKept )
          /\ ~ ENABLED ( /\ registerCourse(s, id)
                         /\ message' \in { Msg("No seats available"),
                                           Msg("Cannot register due to a schedule conflict") }
                         /\ ~storeKept )

(* A registration was refused for lack of seats while registrations exist. *)
C8_Witness ==
    /\ message = Msg("No seats available")
    /\ \E k \in DOMAIN students : students[k].registrations # << >>

uniqueCourseIds(d) ==
    \A i, j \in DOMAIN d.courses : d.courses[i].id = d.courses[j].id => i = j

(* C9: in every reachable state no two courses of the catalog have the same *)
(* id, and addCourse with an id already in the catalog is rejected.         *)
C9_CourseIdUnique ==
    /\ uniqueCourseIds(data)
    /\ \A course \in CourseInputs :
          hasCourse(data, course.id)
          => ENABLED ( /\ addCourse(course)
                       /\ message' = Msg("Course with same ID already exists.")
                       /\ data'.courses = courses )

(* A second CSE102 was refused with the catalog holding three courses. *)
C9_Witness ==
    /\ message = Msg("Course with same ID already exists.")
    /\ Len(courses) = 3

uniqueUsernames(list) ==
    \A i, j \in DOMAIN list : list[i].username = list[j].username => i = j

(* C10: in every reachable state usernames are unique among admins and      *)
(* among students; addUser is rejected exactly when the username exists in  *)
(* the collection of that kind, whatever the other collection holds; a new  *)
(* student is appended with an empty registration list.                     *)
C10_UsernameUniquePerRole ==
    /\ uniqueUsernames(admins) /\ uniqueUsernames(students)
    /\ \A user \in UserInputs :
          /\ ENABLED ( /\ addUser("admin", user)
                       /\ IF hasAdmin(data, user.username)
                          THEN /\ message' = Msg("Admin username taken")
                               /\ data' = data
                          ELSE /\ message' = Msg("Admin added")
                               /\ data'.users.admins = Append(admins, user)
                               /\ data'.users.students = students )
          /\ ENABLED ( /\ addUser("student", user)
                       /\ IF hasStudent(data, user.username)
                          THEN /\ message' = Msg("Student username taken")
                               /\ data' = data
                          ELSE /\ message' = Msg("Student added")
                               /\ data'.users.admins = admins
                               /\ Len(data'.users.students) = Len(students) + 1
                               /\ SubSeq(data'.users.students, 1, Len(students))
                                    = students
                               /\ data'.users.students[Len(students) + 1].username
                                    = user.username
                               /\ data'.users.students[Len(students) + 1].registrations
                                    = << >> )

(* A student named like an admin and an admin named like a student exist,   *)
(* the student having just been added.                                      *)
C10_Witness ==
    /\ hasStudent(data, "admin1") /\ hasAdmin(data, "admin1")
    /\ hasAdmin(data, "student1") /\ hasStudent(data, "student1")
    /\ message = Msg("Student added")
    /\ students[Len(students)].registrations = << >>

(* C11: from every reachable state, updateCourse(updated) puts updated in   *)
(* the place of the one course that has its id and leaves every other       *)
(* course, the admins and the students as they were; when no course has the *)
(* id the store content is unchanged.                                       *)
C11_UpdateCourseFrame ==
    \A updated \in CourseInputs :
        ENABLED ( /\ updateCourse(updated)
                  /\ data'.users = data.users
                  /\ IF hasCourse(data, updated.id)
                     THEN \E p \in DOMAIN courses :
                            /\ courses[p].id = updated.id
                            /\ data'.courses = [courses EXCEPT ![p] = updated]
                     ELSE data' = data )

(* CSE101 was replaced in its first place (seats 30 -> 1), MAT201 after it  *)
(* is the default course still.                                             *)
C11_Witness ==
    /\ message = Msg("Course updated")
    /\ Len(courses) >= 2
    /\ courses[1] = Course("CSE101", {"Mon", "Wed"}, <<9, 0>>, <<10, 30>>, 1)
    /\ courses[2] = defaultData.courses[2]

(* C12: from every reachable state, unregisterCourse(s, id) removes id from *)
(* the list of student s, keeping the other entries in their order, leaves  *)
(* the store content unchanged when the list does not contain id, and in    *)
(* both cases leaves the courses, the admins and the other students as they *)
(* were.                                                                    *)
C12_UnregisterFrame ==
    \A s \in StudentNames, id \in CourseIds :
        ENABLED ( /\ unregisterCourse(s, id)
                  /\ data'.courses = courses
                  /\ data'.users.admins = admins
                  /\ DOMAIN data'.users.students = DOMAIN students
                  /\ \A k \in DOMAIN students :
                       data'.users.students[k] =
                         IF students[k].username = s
                         THEN [students[k] EXCEPT
                                 !.registrations = removeAll(@, id)]
                         ELSE students[k]
                  /\ ~includes(findStudent(data, s).registrations, id)
                       => data' = data )

(* student1 and student2 both hold CSE101, and unregisterCourse for         *)
(* student1 empties that list alone.                                        *)
C12_Witness ==
    /\ findStudent(data, "student1").registrations = << "CSE101" >>
    /\ findStudent(data, "student2").registrations = << "CSE101" >>
    /\ ENABLED ( /\ unregisterCourse("student1", "CSE101")
                 /\ findStudent(data', "student1").registrations = << >>
                 /\ findStudent(data', "student2").registrations = << "CSE101" >> )

minutes(t) == 60 * t[1] + t[2]

(* The pair of courses checkConflict was applied to, once it has returned. *)
checked == probe # << >> /\ probe[1].checked
A == probe[1].a
B == probe[1].b
sharedDay == A.days \cap B.days # {}
nonEmpty(c) == minutes(c.start) < minutes(c.end)
laterStart == IF minutes(A.start) > minutes(B.start)
              THEN minutes(A.start) ELSE minutes(B.start)
earlierEnd == IF minutes(A.end) < minutes(B.end)
              THEN minutes(A.end) ELSE minutes(B.end)

(* C13: checkConflict(A, B) is true exactly when A.days and B.days share a  *)
(* weekday and the later start is, in minutes since midnight, before the    *)
(* earlier end; with disjoint day sets it is false whatever the times.      *)
C13_ConflictDefinition ==
    checked =>
        /\ probe[1].ab = (sharedDay /\ laterStart < earlierEnd)
        /\ ~sharedDay => ~probe[1].ab

(* The same hours on Monday and on Tuesday: no conflict. *)
C13_Witness ==
    /\ checked
    /\ A.days = {"Mon"} /\ B.days = {"Tue"}
    /\ A.start = <<9, 0>> /\ A.end = <<11, 0>>
    /\ B.start = <<9, 0>> /\ B.end = <<11, 0>>
    /\ ~probe[1].ab

(* C14: checkConflict(A, B) = checkConflict(B, A) for all day sets and      *)
(* times.                                                                   *)
C14_ConflictSymmetric ==
    checked => probe[1].ab = probe[1].ba

(* B starts before A, inside neither's start, and both orders report the    *)
(* conflict.                                                                *)
C14_Witness ==
    /\ checked
    /\ sharedDay
    /\ A.start = <<10, 0>> /\ A.end = <<11, 0>>
    /\ B.start = <<9, 0>> /\ B.end = <<10, 1>>
    /\ probe[1].ab /\ probe[1].ba

(* C15: on a shared day, when A ends at the minute B starts there is no     *)
(* conflict; when A ends one minute after B starts (A's end moved one       *)
(* minute later, or B's start one minute earlier) and both last at least a  *)
(* minute, there is one.                                                    *)
C15_HalfOpenBoundary ==
    (checked /\ sharedDay) =>
        /\ minutes(A.end) = minutes(B.start)
             => ~probe[1].ab /\ ~probe[1].ba
        /\ (minutes(A.end) = minutes(B.start) + 1 /\ nonEmpty(A) /\ nonEmpty(B))
             => probe[1].ab /\ probe[1].ba

(* 09:00-10:00 and 10:00-11:00 on Monday: no conflict. *)
C15_Witness ==
    /\ checked
    /\ "Mon" \in A.days /\ "Mon" \in B.days
    /\ A.start = <<9, 0>> /\ A.end = <<10, 0>>
    /\ B.start = <<10, 0>> /\ B.end = <<11, 0>>
    /\ ~probe[1].ab /\ ~probe[1].ba

(* The in-memory store of tab t. *)
storeOf(t) == IF t = tab THEN data ELSE background[1].data

(* C18: with two tabs, localStorage always holds the store of the tab whose *)
(* save effect ran last; a step of the focused tab leaves the other tab's   *)
(* App state as it was, and focusing the other tab shows the store that tab *)
(* had, not what was persisted since.                                       *)
C18_LastWriteWins ==
    /\ [](storage = saveToStorage(storeOf(lastWriter)))
    /\ [][ /\ (tab' = tab) => (background' = background)
           /\ (tab' # tab /\ background # << >>)
                => /\ data' = background[1].data
                   /\ background'[1].data = data ]_vars

(* The focused tab persisted last a store where student2 holds MAT201; the  *)
(* other tab's registration of student1 for CSE101 is in that tab's store   *)
(* and neither in localStorage nor in the focused tab's store.              *)
C18_Witness ==
    /\ background # << >>
    /\ lastWriter = tab
    /\ findStudent(background[1].data, "student1").registrations = << "CSE101" >>
    /\ findStudent(data, "student1").registrations = << >>
    /\ findStudent(data, "student2").registrations = << "MAT201" >>
    /\ findStudent(loadFromStorage(storage), "student1").registrations = << >>

(* C17 (as claimed): every course of the catalog ends strictly later than   *)
(* it starts.                                                               *)
C17_CourseTimeValid ==
    \A i \in DOMAIN courses : minutes(courses[i].end) > minutes(courses[i].start)

(* C19: in every reachable state every id of every registration list is    *)
(* the id of a course of the catalog.                                       *)
C19_ReferentialIntegrity ==
    \A k \in DOMAIN students :
        \A i \in DOMAIN students[k].registrations :
            \E c \in DOMAIN courses : courses[c].id = students[k].registrations[i]

(* A course was deleted while a student holds another one. *)
C19_Witness ==
    /\ message = Msg("Course deleted and registrations updated")
    /\ Len(courses) < 2
    /\ \E k \in DOMAIN students : students[k].registrations # << >>

(* C20: from every reachable state, when student s holds course c, and c    *)
(* has a weekday and starts before it ends, registerCourse(s, c.id) is      *)
(* rejected with the seats-full or the schedule-conflict message and the    *)
(* store is unchanged.                                                      *)
C20_SelfConflictGuard ==
    \A s \in StudentNames, id \in CourseIds :
        ( /\ hasCourse(data, id)
          /\ includes(findStudent(data, s).registrations, id)
          /\ findCourse(data, id).days # {}
          /\ minutes(findCourse(data, id).start) < minutes(findCourse(data, id).end) )
        => ENABLED ( /\ registerCourse(s, id)
                     /\ message' \in { Msg("No seats available"),
                                       Msg("Cannot register due to a schedule conflict") }
                     /\ data' = data )

(* With CSE101 the only course of the catalog, a student who holds it was   *)
(* refused for a schedule conflict: the conflict of CSE101 with itself.     *)
C20_Witness ==
    /\ message = Msg("Cannot register due to a schedule conflict")
    /\ Len(courses) = 1
    /\ courses[1].id = "CSE101"
    /\ \E k \in DOMAIN students : students[k].registrations = << "CSE101" >>

(* registerCourse(t, id) called now is refused for lack of seats. *)
refusedForSeats(t, id) ==
    ENABLED ( /\ registerCourse(t, id)
              /\ message' = Msg("No seats available")
              /\ data' = data )

(* registerCourse(t, id) called now puts id on the list of t. *)
wouldRegister(t, id) ==
    ENABLED ( /\ registerCourse(t, id)
              /\ message' = Msg("Registered successfully")
              /\ includes(findStudent(data', t).registrations, id) )

(* Course id has at least one seat and as many holders as seats or more;   *)
(* s holds it; t holds neither it nor a course that conflicts with it.     *)
fullFor(s, t, id) ==
    /\ hasCourse(data, id)
    /\ findCourse(data, id).seats >= 1
    /\ seatsTaken(id) >= findCourse(data, id).seats
    /\ includes(findStudent(data, s).registrations, id)
    /\ ~includes(findStudent(data, t).registrations, id)
    /\ ~heldConflict(t, findCourse(data, id))

(* C21 (as claimed): when course c with at least one seat is full, s holds  *)
(* c, and t holds neither c nor a course conflicting with c, then           *)
(* registerCourse(t, c.id) is refused before unregisterCourse(s, c.id) and  *)
(* succeeds in the state right after it.                                    *)
C21_UnregisterFreesSeat ==
    [][\A s \in StudentNames, t \in StudentNames, id \in CourseIds :
        ( /\ fullFor(s, t, id)
          /\ unregisterCourse(s, id) )
        => ( /\ refusedForSeats(t, id)
             /\ wouldRegister(t, id)' )]_vars

(* C22: in every state the UI reaches, a button that calls addCourse,       *)
(* updateCourse, deleteCourse or addUser can be clicked only when auth.type *)
(* is "admin"; a button that calls registerCourse or unregisterCourse only  *)
(* when auth.type is "student" and auth.user is a student of the store; and *)
(* login with a username and password that the list of the chosen role does *)
(* not hold leaves auth and view as they are.                               *)
C22_RoleGating ==
    /\ (ENABLED ClickSave \/ ENABLED ClickDelete \/ ENABLED ClickAddStudent)
          => auth.type = "admin"
    /\ auth.type = "student"
          => \E k \in DOMAIN students : students[k].username = auth.user
    /\ (ENABLED ClickRegister \/ ENABLED ClickUnregister \/ ENABLED ClickRegisterAsYou)
          => auth.type = "student"
    /\ \A type \in {"admin", "student"}, cred \in Credentials :
          LET list == IF type = "admin" THEN admins ELSE students
          IN  (~\E i \in DOMAIN list : /\ list[i].username = cred[1]
                                       /\ list[i].password = cred[2])
              => ENABLED ( /\ login(type, cred[1], cred[2])
                           /\ message' = Msg("Invalid credentials")
                           /\ auth' = auth
                           /\ view' = view )

(* student1, logged in on the student dashboard, has registered, the        *)
(* catalog holding CSE102 that an admin added before.                       *)
C22_Witness ==
    /\ view = "student-dashboard"
    /\ auth = [type |-> "student", user |-> "student1"]
    /\ message = Msg("Registered successfully")
    /\ \E i \in DOMAIN courses : courses[i].id = "CSE102"
    /\ findStudent(data, "student1").registrations # << >>

====
